---- MODULE Spec2Model ----
(***************************************************************************)
(* Model of the paper-similarity checker (src/main.py): the normalizer     *)
(* preprocess_text, the n-gram counter get_ngram_frequency, the scorer     *)
(* calculate_cosine_similarity, and the two functools.lru_cache(128)       *)
(* memo caches that front the first two.                                   *)
(*                                                                         *)
(* A text is a sequence of characters; a character is a one-element token  *)
(* ("a", "A", "!", " ", ...).  A Counter is a function from n-grams to     *)
(* positive counts.  A Python float is a binary floating-point number with *)
(* a Precision-bit significand, every operation correctly rounded          *)
(* (round-half-to-even) as IEEE-754 does with 53 bits.                     *)
(***************************************************************************)
EXTENDS Integers, Sequences, FiniteSets

VARIABLES
    cache_pre,     \* lru_cache of preprocess_text: <<[key, val]>>, least recent first
    cache_ngram,   \* lru_cache of get_ngram_frequency, least recent first
    call,          \* the last call made: [op, a, b, n]
    ret,           \* what that call did: [kind |-> "value" | "raise", val]
    calls,         \* number of free calls made so far
    warm           \* number of warm-up calls made so far

vars == <<cache_pre, cache_ngram, call, ret, calls, warm>>

----------------------------------------------------------------------------
(* Bounds of the model *)

MaxLen == 3        \* longest raw text of the scorer's input domain
MaxNormLen == 3    \* longest raw text of the normalizer's input domain
MaxGramLen == 4    \* longest text of the n-gram counter's input domain
MaxN == 3          \* largest n-gram width tried
MaxCalls == 2      \* free calls per run of the cache machine
MaxWarm == 130     \* warm-up calls per run of the cache machine
Precision == 10    \* significand bits of the modelled float

(* Program constant *)
maxsize == 128

----------------------------------------------------------------------------
(* Characters.  U0130 is LATIN CAPITAL LETTER I WITH DOT ABOVE, whose      *)
(* str.lower() is the two characters "i" and U0307 (COMBINING DOT ABOVE).  *)

Letters == {"a", "b", "i"}
Uppers == {"A", "B", "U0130"}
Marks == {"U0307"}
Puncts == {"!"}
Spaces == {" ", "\t"}

\* re: \w matches what str.isalnum() accepts, and the underscore
IsWord(c) == c \in Letters \cup Uppers \cup {"_"}

\* re: \s, and the characters str.strip() removes
IsSpace(c) == c \in Spaces

\* str.lower() of one character
Lower(c) ==
    CASE c = "A" -> <<"a">>
      [] c = "B" -> <<"b">>
      [] c = "U0130" -> <<"i", "U0307">>
      [] OTHER -> <<c>>

RECURSIVE LowerAll(_)
LowerAll(s) == IF s = <<>> THEN <<>> ELSE Lower(Head(s)) \o LowerAll(Tail(s))

\* re.sub(r'[^\w\s]', '', text)
KeepWordOrSpace(c) == IsWord(c) \/ IsSpace(c)

StripNonWord(s) == SelectSeq(s, KeepWordOrSpace)

RECURSIVE DropLeadingSpace(_)
DropLeadingSpace(s) ==
    IF s # <<>> /\ IsSpace(Head(s)) THEN DropLeadingSpace(Tail(s)) ELSE s

RECURSIVE DropTrailingSpace(_)
DropTrailingSpace(s) ==
    IF s # <<>> /\ IsSpace(s[Len(s)])
    THEN DropTrailingSpace(SubSeq(s, 1, Len(s) - 1))
    ELSE s

\* re.sub(r'\s+', ' ', text): every maximal run of whitespace becomes one " "
RECURSIVE CollapseSpace(_)
CollapseSpace(s) ==
    IF s = <<>> THEN <<>>
    ELSE IF IsSpace(Head(s))
         THEN <<" ">> \o CollapseSpace(DropLeadingSpace(Tail(s)))
         ELSE <<Head(s)>> \o CollapseSpace(Tail(s))

\* str.strip()
Strip(s) == DropTrailingSpace(DropLeadingSpace(s))

Value(v) == [kind |-> "value", val |-> v]
Raise == [kind |-> "raise", val |-> "PaperCheckException"]

\* The body of preprocess_text (the function lru_cache wraps)
preprocess_text_wrapped(text) ==
    Value(Strip(CollapseSpace(LowerAll(StripNonWord(text)))))

----------------------------------------------------------------------------
(* An argument n: an int, or a float holding a whole number (2.0).  Python *)
(* compares and hashes 2 and 2.0 as equal, isinstance(2.0, int) is False.  *)

IntN(v) == [int |-> TRUE, val |-> v]
FloatN(v) == [int |-> FALSE, val |-> v]

EmptyCounter == [g \in {} |-> 0]

\* freq[gram] += 1 (a Counter reads a missing key as 0)
Increment(freq, gram) ==
    [g \in DOMAIN freq \cup {gram} |->
        IF g = gram THEN (IF gram \in DOMAIN freq THEN freq[gram] + 1 ELSE 1)
        ELSE freq[g]]

\* Variant: the loop stops one offset early, range(len(text) - n)
RECURSIVE CountFromShort(_, _, _, _)
CountFromShort(text, k, i, freq) ==
    IF i >= Len(text) - k THEN freq
    ELSE CountFromShort(text, k, i + 1, Increment(freq, SubSeq(text, i + 1, i + k)))

\* for i in range(len(text) - n + 1): the iterations from offset i on
\* (offsets here are 1-based: text[i:i + n] is SubSeq(text, i + 1, i + n))
RECURSIVE CountFrom(_, _, _, _)
CountFrom(text, k, i, freq) ==
    IF i >= Len(text) - k + 1 THEN freq
    ELSE CountFrom(text, k, i + 1, Increment(freq, SubSeq(text, i + 1, i + k)))

NgramCounter(text, k) == CountFrom(text, k, 0, EmptyCounter)

\* Variant: a text shorter than n is an error instead of an empty Counter
get_ngram_frequency_raising(text, n) ==
    IF ~n.int \/ n.val < 1 THEN Raise
    ELSE IF Len(text) < n.val THEN Raise
    ELSE Value(NgramCounter(text, n.val))

\* The body of get_ngram_frequency
get_ngram_frequency_wrapped(text, n) ==
    IF ~n.int \/ n.val < 1 THEN Raise
    ELSE IF Len(text) < n.val THEN Value(EmptyCounter)
    ELSE Value(NgramCounter(text, n.val))

----------------------------------------------------------------------------
(* Floats: [m, e] stands for m * 2^e with 2^(Precision-1) <= m < 2^Precision, *)
(* or Zero.  Only non-negative values occur.                                *)

Half == 2 ^ (Precision - 1)
Full == 2 ^ Precision

Zero == [m |-> 0, e |-> 0]
One == [m |-> Half, e |-> 1 - Precision]

RoundHalfEven(num, den) ==
    LET q == num \div den
        r == num % den
    IN  IF 2 * r > den THEN q + 1
        ELSE IF 2 * r < den THEN q
        ELSE q + (q % 2)

\* The float nearest to (num / den) * 2^e0, for integers num >= 0, den > 0
RECURSIVE FloatOfRat(_, _, _)
FloatOfRat(num, den, e0) ==
    IF num = 0 THEN Zero
    ELSE IF num >= Full * den THEN FloatOfRat(num, 2 * den, e0 + 1)
    ELSE IF num < Half * den THEN FloatOfRat(2 * num, den, e0 - 1)
    ELSE LET m == RoundHalfEven(num, den)
         IN  IF m = Full THEN [m |-> Half, e |-> e0 + 1]
                         ELSE [m |-> m, e |-> e0]

RECURSIVE ISqrtIn(_, _, _)
ISqrtIn(x, lo, hi) ==
    IF lo >= hi THEN lo
    ELSE LET mid == (lo + hi + 1) \div 2
         IN  IF mid * mid <= x THEN ISqrtIn(x, mid, hi) ELSE ISqrtIn(x, lo, mid - 1)

\* math.sqrt of a non-negative int, correctly rounded
FSqrt(x) ==
    IF x = 0 THEN Zero
    ELSE LET j == CHOOSE i \in 0..(Precision - 1) : 4 ^ i <= x /\ x < 4 ^ (i + 1)
             X == x * 4 ^ (Precision - 1 - j)
             f == ISqrtIn(X, Half, Full - 1)
             m == IF X > f * f + f THEN f + 1 ELSE f
         IN  IF m = Full THEN [m |-> Half, e |-> j - Precision + 2]
                         ELSE [m |-> m, e |-> j - Precision + 1]

\* float * float
FMul(x, y) == FloatOfRat(x.m * y.m, 1, x.e + y.e)

\* int / float (the int converts to float exactly), for y # Zero
FDiv(d, y) == FloatOfRat(d, y.m, -y.e)

\* x < y
FLess(x, y) ==
    /\ y.m # 0
    /\ \/ x.m = 0
       \/ x.e < y.e
       \/ x.e = y.e /\ x.m < y.m

\* Variant: the result is returned without the clamp
ClampMissing(similarity) == similarity

\* max(0.0, min(1.0, similarity))
Clamp(similarity) ==
    LET lo == IF FLess(similarity, One) THEN similarity ELSE One
    IN  IF FLess(Zero, lo) THEN lo ELSE Zero

----------------------------------------------------------------------------
(* The scorer's arithmetic on two non-empty Counters *)

RECURSIVE SumOver(_, _)
SumOver(S, F) ==
    IF S = {} THEN 0
    ELSE LET x == CHOOSE y \in S : TRUE IN F[x] + SumOver(S \ {x}, F)

\* Variant: freq2.get(gram, 1) over the n-grams of freq1
DotProductDefaultOne(freq1, freq2) ==
    SumOver(DOMAIN freq1,
            [g \in DOMAIN freq1 |->
                freq1[g] * (IF g \in DOMAIN freq2 THEN freq2[g] ELSE 1)])

\* sum(freq1[gram] * freq2[gram] for gram in common_grams)
DotProduct(freq1, freq2) ==
    LET common_grams == DOMAIN freq1 \cap DOMAIN freq2
    IN  SumOver(common_grams, [g \in common_grams |-> freq1[g] * freq2[g]])

\* sum(freq ** 2 for freq in freq.values())
SumSquares(freq) == SumOver(DOMAIN freq, [g \in DOMAIN freq |-> freq[g] * freq[g]])

\* Variant: the square root is forgotten
MagnitudeNoSqrt(freq) == FloatOfRat(SumSquares(freq), 1, 0)

\* math.sqrt(sum(freq ** 2 for freq in freq.values()))
Magnitude(freq) == FSqrt(SumSquares(freq))

\* Variant: magnitude1 is used twice
SimilarityOneSided(freq1, freq2) ==
    FDiv(DotProduct(freq1, freq2), FMul(Magnitude(freq1), Magnitude(freq1)))

\* dot_product / (magnitude1 * magnitude2), before the clamp
Similarity(freq1, freq2) ==
    FDiv(DotProduct(freq1, freq2), FMul(Magnitude(freq1), Magnitude(freq2)))

\* calculate_cosine_similarity from the two Counters on
CosineOfCounters(freq1, freq2) ==
    IF DOMAIN freq1 = {} \/ DOMAIN freq2 = {} THEN Zero
    ELSE IF FMul(Magnitude(freq1), Magnitude(freq2)) = Zero THEN Zero
    ELSE Clamp(Similarity(freq1, freq2))

----------------------------------------------------------------------------
(* functools.lru_cache(maxsize=128): a hit moves the entry to the recent   *)
(* end; a miss calls the function, and a returned value is stored, evicting *)
(* the least recently used entry of a full cache.  A raise stores nothing.  *)

Touch(cache, i) ==
    SubSeq(cache, 1, i - 1) \o SubSeq(cache, i + 1, Len(cache)) \o <<cache[i]>>

Insert(cache, key, val) ==
    IF Len(cache) >= maxsize
    THEN Append(Tail(cache), [key |-> key, val |-> val])
    ELSE Append(cache, [key |-> key, val |-> val])

lru_cache_wrapper(cache, key, computed) ==
    LET hit == {i \in 1..Len(cache) : cache[i].key = key}
    IN  IF hit # {}
        THEN LET i == CHOOSE j \in hit : TRUE
             IN  [cache |-> Touch(cache, i), ret |-> Value(cache[i].val)]
        ELSE IF computed.kind = "raise"
             THEN [cache |-> cache, ret |-> computed]
             ELSE [cache |-> Insert(cache, key, computed.val), ret |-> computed]

\* @lru_cache preprocess_text: the key is the text
preprocess_text(cache, text) ==
    lru_cache_wrapper(cache, text, preprocess_text_wrapped(text))

\* @lru_cache get_ngram_frequency: the key is (text, n), and 2 == 2.0
get_ngram_frequency(cache, text, n) ==
    lru_cache_wrapper(cache, <<text, n.val>>, get_ngram_frequency_wrapped(text, n))

\* calculate_cosine_similarity, from the caches pre and ngram
calculate_cosine_similarity(pre, ngram, text1, text2, n) ==
    LET p1 == preprocess_text(pre, text1)
        p2 == preprocess_text(p1.cache, text2)
        t1 == p1.ret.val
        t2 == p2.ret.val
        f1 == get_ngram_frequency(ngram, t1, n)
        f2 == get_ngram_frequency(f1.cache, t2, n)
    IN  IF t1 = <<>> \/ t2 = <<>>
        THEN [pre |-> p2.cache, ngram |-> ngram, ret |-> Value(Zero)]
        ELSE IF f1.ret.kind = "raise"
        THEN [pre |-> p2.cache, ngram |-> f1.cache, ret |-> Raise]
        ELSE IF f2.ret.kind = "raise"
        THEN [pre |-> p2.cache, ngram |-> f2.cache, ret |-> Raise]
        ELSE [pre |-> p2.cache, ngram |-> f2.cache,
              ret |-> Value(CosineOfCounters(f1.ret.val, f2.ret.val))]

----------------------------------------------------------------------------
(* Input domains *)

TextsUpTo(alphabet, maxlen) == UNION {[1..k -> alphabet] : k \in 0..maxlen}

\* The normalizer's inputs: every class of character it tells apart
NormTexts ==
    TextsUpTo({"a", "A", "_", "U0130"} \cup Puncts \cup Spaces \cup Marks, MaxNormLen)

\* The n-gram counter's inputs: any strings, normalized or not
GramTexts == TextsUpTo({"a", "b", " "}, MaxGramLen)

\* The scorer's inputs
CosTexts == TextsUpTo({"a", "B", " "}, MaxLen)

\* n: ints from 0 (not positive) to MaxN, and the float 2.0
NArgs == {IntN(v) : v \in 0..MaxN} \cup {FloatN(2)}

\* The cache machine's inputs
CacheTexts == {<<>>, <<"a">>, <<"A">>}
CacheNArgs == {IntN(1), FloatN(1)}

\* The k-th warm-up text: "a" followed by k "!", all distinct, each normalized to "a"
WarmText(k) == <<"a">> \o [i \in 1..k |-> "!"]

----------------------------------------------------------------------------
(* The state machine: one action per call of the three public functions *)

NoArg == IntN(0)

Init ==
    /\ cache_pre = <<>>
    /\ cache_ngram = <<>>
    /\ call = [op |-> "none", a |-> <<>>, b |-> <<>>, n |-> NoArg]
    /\ ret = [kind |-> "none", val |-> 0]
    /\ calls = 0
    /\ warm = 0

CallPreprocess(text) ==
    LET r == preprocess_text(cache_pre, text)
    IN  /\ cache_pre' = r.cache
        /\ ret' = r.ret
        /\ call' = [op |-> "preprocess_text", a |-> text, b |-> <<>>, n |-> NoArg]
        /\ UNCHANGED cache_ngram

CallNgram(text, n) ==
    LET r == get_ngram_frequency(cache_ngram, text, n)
    IN  /\ cache_ngram' = r.cache
        /\ ret' = r.ret
        /\ call' = [op |-> "get_ngram_frequency", a |-> text, b |-> <<>>, n |-> n]
        /\ UNCHANGED cache_pre

CallCosine(text1, text2, n) ==
    LET r == calculate_cosine_similarity(cache_pre, cache_ngram, text1, text2, n)
    IN  /\ cache_pre' = r.pre
        /\ cache_ngram' = r.ngram
        /\ ret' = r.ret
        /\ call' = [op |-> "calculate_cosine_similarity",
                    a |-> text1, b |-> text2, n |-> n]

\* The cache machine: a warm-up of scorer calls on fresh texts and widths,
\* then up to MaxCalls calls of any of the three functions
WarmUp ==
    /\ calls = 0
    /\ warm < MaxWarm
    /\ CallCosine(WarmText(warm + 1), WarmText(warm + 1), IntN(warm + 1))
    /\ warm' = warm + 1
    /\ UNCHANGED calls

Preprocess ==
    /\ calls < MaxCalls
    /\ \E text \in CacheTexts : CallPreprocess(text)
    /\ calls' = calls + 1
    /\ UNCHANGED warm

Ngram ==
    /\ calls < MaxCalls
    /\ \E text \in CacheTexts, n \in CacheNArgs : CallNgram(text, n)
    /\ calls' = calls + 1
    /\ UNCHANGED warm

Cosine ==
    /\ calls < MaxCalls
    /\ \E text1, text2 \in CacheTexts, n \in CacheNArgs : CallCosine(text1, text2, n)
    /\ calls' = calls + 1
    /\ UNCHANGED warm

Next == WarmUp \/ Preprocess \/ Ngram \/ Cosine

Spec == Init /\ [][Next]_vars

\* The three functions as pure functions: the arguments are drawn at the
\* start, and the one call is made from empty caches
Pending == [kind |-> "pending", val |-> 0]

PureCall(c) ==
    /\ cache_pre = <<>>
    /\ cache_ngram = <<>>
    /\ call = c
    /\ ret = Pending
    /\ calls = 0
    /\ warm = 0

InitPure ==
    \/ \E text \in NormTexts :
         PureCall([op |-> "preprocess_text", a |-> text, b |-> <<>>, n |-> NoArg])
    \/ \E text \in GramTexts, n \in NArgs :
         PureCall([op |-> "get_ngram_frequency", a |-> text, b |-> <<>>, n |-> n])
    \/ \E text1 \in CosTexts, text2 \in CosTexts, n \in NArgs :
         PureCall([op |-> "calculate_cosine_similarity",
                   a |-> text1, b |-> text2, n |-> n])

PurePreprocess ==
    /\ ret = Pending
    /\ call.op = "preprocess_text"
    /\ CallPreprocess(call.a)
    /\ UNCHANGED <<calls, warm>>

PureNgram ==
    /\ ret = Pending
    /\ call.op = "get_ngram_frequency"
    /\ CallNgram(call.a, call.n)
    /\ UNCHANGED <<calls, warm>>

PureCosine ==
    /\ ret = Pending
    /\ call.op = "calculate_cosine_similarity"
    /\ CallCosine(call.a, call.b, call.n)
    /\ UNCHANGED <<calls, warm>>

NextPure == PurePreprocess \/ PureNgram \/ PureCosine

SpecPure == InitPure /\ [][NextPure]_vars

----------------------------------------------------------------------------
(* What the claims speak of *)

COS == "calculate_cosine_similarity"
NGRAM == "get_ngram_frequency"
PRE == "preprocess_text"

Returned == ret.kind \in {"value", "raise"}

\* n is a positive integer
PositiveInt(n) == n.int /\ n.val >= 1

\* The normalized form of a raw text
Normalized(text) == preprocess_text_wrapped(text).val

Chars(text) == {text[i] : i \in 1..Len(text)}

\* The Counter of a raw text's normalized form
CounterOf(text, n) == get_ngram_frequency_wrapped(Normalized(text), n).val

FLessEq(x, y) == ~FLess(y, x)

\* |x - 1.0| <= 0.01, for a float x of exponent at most 0
WithinHundredthOfOne(x) ==
    /\ x.m # 0
    /\ x.e <= 0
    /\ 99 * 2 ^ (-x.e) <= 100 * x.m
    /\ 100 * x.m <= 101 * 2 ^ (-x.e)

\* The three functions with no cache in front of them
UncachedCosine(text1, text2, n) ==
    LET t1 == Normalized(text1)
        t2 == Normalized(text2)
        f1 == get_ngram_frequency_wrapped(t1, n)
        f2 == get_ngram_frequency_wrapped(t2, n)
    IN  IF t1 = <<>> \/ t2 = <<>> THEN Value(Zero)
        ELSE IF f1.kind = "raise" \/ f2.kind = "raise" THEN Raise
        ELSE Value(CosineOfCounters(f1.val, f2.val))

Uncached(c) ==
    CASE c.op = PRE -> preprocess_text_wrapped(c.a)
      [] c.op = NGRAM -> get_ngram_frequency_wrapped(c.a, c.n)
      [] c.op = COS -> UncachedCosine(c.a, c.b, c.n)

----------------------------------------------------------------------------
(* C1: for all texts A, B and every positive integer n,                     *)
(* calculate_cosine_similarity(A, B, n) returns a score s, 0.0 <= s <= 1.0: *)
(* the dot product over the shared n-grams never exceeds the product of the *)
(* two magnitudes (squared: dot^2 <= sum1 * sum2), and the value returned   *)
(* lies in the closed interval.                                             *)
C1_ScoreInUnitInterval ==
    (call.op = COS /\ Returned /\ PositiveInt(call.n)) =>
        /\ ret.kind = "value"
        /\ FLessEq(Zero, ret.val)
        /\ FLessEq(ret.val, One)
        /\ LET f1 == CounterOf(call.a, call.n)
               f2 == CounterOf(call.b, call.n)
               dot == DotProduct(f1, f2)
           IN  dot * dot <= SumSquares(f1) * SumSquares(f2)

\* The clamp acted: the quotient came out above 1.0 and 1.0 was returned
C1_Witness ==
    /\ call.op = COS /\ Returned /\ PositiveInt(call.n)
    /\ DOMAIN CounterOf(call.a, call.n) # {}
    /\ DOMAIN CounterOf(call.b, call.n) # {}
    /\ FLess(One, Similarity(CounterOf(call.a, call.n), CounterOf(call.b, call.n)))
    /\ ret = Value(One)

(* C2: for every text T and positive integer n with                         *)
(* len(preprocess_text(T)) >= n, calculate_cosine_similarity(T, T, n) is    *)
(* 1.0 within 0.01.                                                         *)
C2_SelfSimilarityIsOne ==
    (/\ call.op = COS /\ Returned
     /\ call.a = call.b
     /\ PositiveInt(call.n)
     /\ Len(Normalized(call.a)) >= call.n.val) =>
        ret.kind = "value" /\ WithinHundredthOfOne(ret.val)

\* A text compared with itself whose Counter holds several bigrams
C2_Witness ==
    /\ call.op = COS /\ Returned
    /\ call.a = call.b
    /\ call.n = IntN(2)
    /\ Cardinality(DOMAIN CounterOf(call.a, call.n)) >= 2
    /\ ret.kind = "value" /\ WithinHundredthOfOne(ret.val)

(* C3: for all texts A, B whose normalized forms share no character, and    *)
(* every positive integer n, calculate_cosine_similarity(A, B, n) is 0.0.   *)
C3_DisjointIsZero ==
    (/\ call.op = COS /\ Returned
     /\ PositiveInt(call.n)
     /\ Chars(Normalized(call.a)) \cap Chars(Normalized(call.b)) = {}) =>
        ret = Value(Zero)

\* Two texts with n-grams of their own and no character in common
C3_Witness ==
    /\ call.op = COS /\ Returned
    /\ PositiveInt(call.n)
    /\ Chars(Normalized(call.a)) \cap Chars(Normalized(call.b)) = {}
    /\ DOMAIN CounterOf(call.a, call.n) # {}
    /\ DOMAIN CounterOf(call.b, call.n) # {}
    /\ ret = Value(Zero)

(* C4: symmetry: for all texts A, B and every positive integer n,           *)
(* calculate_cosine_similarity(A, B, n) returns exactly what                *)
(* calculate_cosine_similarity(B, A, n) returns, the early returns of 0.0   *)
(* included.                                                                *)
C4_Symmetric ==
    (call.op = COS /\ Returned /\ PositiveInt(call.n)) =>
        ret = calculate_cosine_similarity(<<>>, <<>>, call.b, call.a, call.n).ret

\* Two texts of different magnitudes with a score strictly between 0 and 1
C4_Witness ==
    /\ call.op = COS /\ Returned /\ PositiveInt(call.n)
    /\ ret.kind = "value"
    /\ FLess(Zero, ret.val) /\ FLess(ret.val, One)
    /\ SumSquares(CounterOf(call.a, call.n)) # SumSquares(CounterOf(call.b, call.n))

(* C5: degenerate input is a defined result: for every positive integer n,  *)
(* if either text normalizes to the empty string or to a string shorter     *)
(* than n, calculate_cosine_similarity returns exactly 0.0 and raises       *)
(* nothing.                                                                 *)
C5_DegenerateIsZero ==
    (/\ call.op = COS /\ Returned
     /\ PositiveInt(call.n)
     /\ \/ Len(Normalized(call.a)) < call.n.val
        \/ Len(Normalized(call.b)) < call.n.val) =>
        ret = Value(Zero)

\* One text normalizes to a non-empty string shorter than n, the other is long enough
C5_Witness ==
    /\ call.op = COS /\ Returned
    /\ PositiveInt(call.n)
    /\ Normalized(call.a) # <<>>
    /\ Len(Normalized(call.a)) < call.n.val
    /\ Len(Normalized(call.b)) >= call.n.val
    /\ ret = Value(Zero)

(* C6: for every string text and positive integer n,                        *)
(* get_ngram_frequency(text, n) returns a map whose keys are length-n       *)
(* substrings of text, each valued with the number of offsets at which it   *)
(* occurs (overlapping, stride 1), every value >= 1, the values summing to  *)
(* len(text) - n + 1 when len(text) >= n, and the map empty when            *)
(* len(text) < n.                                                           *)
C6_NgramCounts ==
    (call.op = NGRAM /\ Returned /\ PositiveInt(call.n)) =>
        /\ ret.kind = "value"
        /\ LET text == call.a
               k == call.n.val
               freq == ret.val
               Offsets == 1..(Len(text) - k + 1)
               At(i) == SubSeq(text, i, i + k - 1)
           IN  /\ \A g \in DOMAIN freq :
                    /\ Len(g) = k
                    /\ freq[g] = Cardinality({i \in Offsets : At(i) = g})
                    /\ freq[g] >= 1
               /\ Len(text) >= k =>
                    SumOver(DOMAIN freq, freq) = Len(text) - k + 1
               /\ Len(text) < k => DOMAIN freq = {}

\* An n-gram counted twice at overlapping offsets, beside another n-gram
C6_Witness ==
    /\ call.op = NGRAM /\ Returned /\ PositiveInt(call.n)
    /\ call.n.val >= 2
    /\ ret.kind = "value"
    /\ Cardinality(DOMAIN ret.val) >= 2
    /\ \E g \in DOMAIN ret.val : ret.val[g] >= 2

(* C7: normalization is idempotent: for every text T,                       *)
(* preprocess_text(preprocess_text(T)) = preprocess_text(T).                *)
C7_Idempotent ==
    (call.op = PRE /\ ret.kind = "value") =>
        preprocess_text_wrapped(ret.val).val = ret.val

(* C8: for every input text, the string preprocess_text returns holds only  *)
(* word characters and ASCII spaces, no two spaces adjacent, no leading or  *)
(* trailing whitespace, and no character with a different lower-case form.  *)
C8_NormalizedText ==
    (call.op = PRE /\ ret.kind = "value") =>
        LET t == ret.val
        IN  /\ \A i \in 1..Len(t) : IsWord(t[i]) \/ t[i] = " "
            /\ \A i \in 1..(Len(t) - 1) : ~(t[i] = " " /\ t[i + 1] = " ")
            /\ t # <<>> => ~IsSpace(t[1]) /\ ~IsSpace(t[Len(t)])
            /\ LowerAll(t) = t

(* C9: InvalidArgument fails fast: every call of get_ngram_frequency or     *)
(* calculate_cosine_similarity whose n is not a positive integer ends in a  *)
(* raised error, never in a returned map or score, whatever the texts.      *)
C9_InvalidNRaises ==
    (call.op \in {NGRAM, COS} /\ Returned /\ ~PositiveInt(call.n)) =>
        ret.kind = "raise"

(* The caches: their size, their entries, and what a call returns through them *)
CachesBounded == Len(cache_pre) <= maxsize /\ Len(cache_ngram) <= maxsize

EntriesUnchanged ==
    /\ \A i \in 1..Len(cache_pre) :
         cache_pre[i].val = preprocess_text_wrapped(cache_pre[i].key).val
    /\ \A i \in 1..Len(cache_ngram) :
         cache_ngram[i].val =
            get_ngram_frequency_wrapped(cache_ngram[i].key[1],
                                        IntN(cache_ngram[i].key[2])).val

Transparent == Returned => ret = Uncached(call)

(* C10: the memo caches are transparent and bounded: after any sequence of  *)
(* calls each cache holds at most 128 entries, every stored entry equals    *)
(* the value computed for its key, and every call returns what an uncached  *)
(* computation of the same arguments returns.                               *)
C10_CachesTransparentAndBounded ==
    CachesBounded /\ EntriesUnchanged /\ Transparent

\* What does hold of the caches: they are bounded, their entries are never
\* changed, and every call whose n is an int returns the uncached result
TransparentForInts == (Returned /\ call.n.int) => ret = Uncached(call)

CachesSound == CachesBounded /\ EntriesUnchanged /\ TransparentForInts

====
